---- MODULE Spec2Model ----
(***************************************************************************)
(* The host-side USB-MIDI class driver of src/src/class/midi/midi_host.c,  *)
(* streaming variant (the first copy of the driver in the file, lines      *)
(* 1..661, built with CFG_TUH_MIDI_EP_MAX <= 1: the only branch of that    *)
(* copy that compiles against its own midih_interface_t).                  *)
(*                                                                         *)
(* Pointers into _midih_itf are handles: h in 1..CFG_TUH_MIDI is           *)
(* &_midih_itf[h-1]; 0 is &_midih_itf[-1], what get_itf(0) yields; NULLP   *)
(* is the C null pointer.  Memory reached through handle 0, through NULLP  *)
(* or through &_stream_blk[-1] is outside the driver's tables: a read of   *)
(* it yields any value, a write to it is recorded in last.wild, and a      *)
(* null dereference may instead take a processor fault (fault = TRUE),     *)
(* after which the driver executes nothing.                                *)
(***************************************************************************)
EXTENDS Integers, Sequences, FiniteSets, TLC

\* ---------------------------------------------------------------- bounds
\* Configuration macros of tusb_config.h; their values are not set in src/.
CFG_TUH_MIDI == 2
CFG_TUH_DEVICE_MAX == 2
CFG_TUH_DEVICE_ITF_MAX == 1
CFG_TUH_ENDPOINT_MAX == 1
\* Capacity of a stream FIFO in bytes (stands for MIDIH_STREAM_FIFO_SZ).
FifoCap == 4

\* ------------------------------------------------------------- constants
USB_MIDI_SPEC_VERSION_1 == 1
USB_MIDI_SPEC_VERSION_2 == 2
NULLP == -1

Slots == 1..CFG_TUH_MIDI
Blocks == 1..CFG_TUH_ENDPOINT_MAX
\* Addresses usbh gives to devices that can carry a MIDI function.
Devs == 1..CFG_TUH_DEVICE_MAX
\* midih_close is also called for hub addresses, above CFG_TUH_DEVICE_MAX.
CloseDevs == 1..(CFG_TUH_DEVICE_MAX + 1)
\* Number of the first interface of a function, as usbh accepts it.
ItfNums == 0..(CFG_TUH_DEVICE_ITF_MAX - 1)
EpAddrs == {129, 1}

VARIABLES
  MIDI_SPEC_1_0,   \* build: CFG_TUH_MIDI_SPEC_1_0
  MIDI_SPEC_2_0,   \* build: CFG_TUH_MIDI_SPEC_2_0
  midih_itf,       \* _midih_itf[CFG_TUH_MIDI], indexed by handle
  buffer_owner,    \* _buffer_owner[CFG_TUH_ENDPOINT_MAX], indexed by stream id
  stream_blk,      \* _stream_blk[CFG_TUH_ENDPOINT_MAX], indexed by stream id
  mount_fired,     \* history: tuh_midi_mount_cb was called with this handle
                   \* since the slot was last cleared
  opened,          \* history: the slot was claimed by a midih_open that
                   \* returned true, and midih_close has not been called
                   \* for its device since
  last,            \* the last driver entry point executed, with its result
  fault,           \* the processor took a fault on a null dereference
  usbh_ep,         \* the host stack's endpoint table, by <<device, endpoint>>
  sync_pc          \* where the caller of tuh_midi_v1_stream_out_n_flush_sync
                   \* stands: 0 outside the call, else the handle it polls

vars == <<MIDI_SPEC_1_0, MIDI_SPEC_2_0, midih_itf, buffer_owner, stream_blk,
          mount_fired, opened, last, fault, usbh_ep, sync_pc>>

\* The state only the application's I/O calls and the host stack's transfers
\* change.
io_vars == <<usbh_ep, sync_pc>>

\* ------------------------------------------------------------ data model
ZeroItf ==
  [dev_num |-> 0, itf_num |-> 0, midi_spec |-> 0, ep_in |-> 0, ep_out |-> 0,
   configured |-> FALSE, mounted |-> FALSE,
   in_stream |-> NULLP, out_stream |-> NULLP,
   in_jack_count |-> 0, out_jack_count |-> 0]

\* What a record-sized piece of memory outside the registry may hold.
WildItf ==
  {ZeroItf,
   [ZeroItf EXCEPT !.dev_num = 1, !.mounted = TRUE, !.ep_in = 129, !.ep_out = 1]}

ZeroStream == [inited |-> FALSE, is_tx |-> FALSE, count |-> 0]

NoCall ==
  [op |-> "init", dev |-> 0, ret |-> TRUE, cbs |-> <<>>, complete |-> 0,
   wild |-> FALSE, slot |-> 0, bcd |-> -1, ep |-> 0, event |-> ""]

\* The host stack's state of one endpoint: a transfer in flight (busy) with
\* its buffer and length, and the claim on the endpoint.
ZeroEp == [busy |-> FALSE, claimed |-> FALSE, buf |-> 0, len |-> 0]

UsbhEps == Devs \X EpAddrs

\* ----------------------------------------------------------- descriptors
\* num is bInterfaceNumber of an interface descriptor and bNumEmbMIDIJack of
\* a class-specific endpoint descriptor, whose baAssocJackID is ids.
D(type, len, cls, sub, num, neps, bcd, addr) ==
  [type |-> type, len |-> len, cls |-> cls, sub |-> sub, num |-> num,
   neps |-> neps, bcd |-> bcd, addr |-> addr, ids |-> <<>>]

ItfD(cls, sub, num, neps) == D("INTERFACE", 9, cls, sub, num, neps, 0, 0)
HdrD(bcd) == D("CS_INTERFACE", 7, "", "", 0, 0, bcd, 0)
CsAcD == D("CS_INTERFACE", 9, "", "", 0, 0, 0, 0)
EpD(addr) == D("ENDPOINT", 9, "", "", 0, 0, 0, addr)
CsEpJ(ids) ==
  [D("CS_ENDPOINT", 4 + Len(ids), "", "", Len(ids), 0, 0, 0) EXCEPT !.ids = ids]
CsEpD == CsEpJ(<<1>>)

Kinds ==
  {"MsV1In", "MsV1Out", "AcMsV1", "MsV2", "MsV3", "MsV1NoEp", "Hid",
   "AudioStreaming", "AcOnly", "MsV1Trunc"}

\* Descriptors a well-formed device can present for a MIDI function.
ValidKinds == {"MsV1In", "MsV1Out", "AcMsV1", "MsV2", "MsV1NoEp"}

Chain(kind, n) ==
  CASE kind = "MsV1In" ->
         <<ItfD("AUDIO", "MIDI_STREAMING", n, 2), HdrD(256),
           EpD(129), CsEpJ(<<1, 2>>), EpD(1), CsEpJ(<<3>>)>>
    [] kind = "MsV1Out" ->
         <<ItfD("AUDIO", "MIDI_STREAMING", n, 2), HdrD(256),
           EpD(1), CsEpD, EpD(129), CsEpD>>
    [] kind = "AcMsV1" ->
         <<ItfD("AUDIO", "CONTROL", n, 0), CsAcD,
           ItfD("AUDIO", "MIDI_STREAMING", n + 1, 2), HdrD(256),
           EpD(129), CsEpD, EpD(1), CsEpD>>
    [] kind = "MsV2" ->
         <<ItfD("AUDIO", "MIDI_STREAMING", n, 2), HdrD(512),
           EpD(129), EpD(1)>>
    [] kind = "MsV3" ->
         <<ItfD("AUDIO", "MIDI_STREAMING", n, 2), HdrD(768),
           EpD(129), CsEpD, EpD(1), CsEpD>>
    [] kind = "MsV1NoEp" ->
         <<ItfD("AUDIO", "MIDI_STREAMING", n, 0), HdrD(256)>>
    [] kind = "Hid" ->
         <<ItfD("HID", "NONE", n, 1), EpD(129)>>
    [] kind = "AudioStreaming" ->
         <<ItfD("AUDIO", "STREAMING", n, 1), CsAcD, EpD(129)>>
    [] kind = "AcOnly" ->
         <<ItfD("AUDIO", "CONTROL", n, 0), CsAcD>>
    [] kind = "MsV1Trunc" ->
         <<ItfD("AUDIO", "MIDI_STREAMING", n, 1), HdrD(256)>>

\* What the memory a null desc_itf addresses may look like: a well-formed
\* MIDI-Streaming interface, or something else.
WildChains == {Chain("MsV1In", 0), Chain("Hid", 0)}

RECURSIVE Off(_, _)
\* Byte offset of descriptor i from the start of the chain.
Off(c, i) == IF i <= 1 THEN 0 ELSE Off(c, i - 1) + c[i - 1].len

TotalLen(c) == Off(c, Len(c) + 1)

\* --------------------------------------------------- descriptor helpers
tu_desc_next(i) == i + 1

tu_edpt_dir(addr) == IF addr >= 128 THEN "IN" ELSE "OUT"

RECURSIVE tu_desc_find(_, _, _, _)
\* First descriptor of the given type at or after i that starts (with its
\* type byte) before byte offset end; 0 is "not found" (NULL).
tu_desc_find(c, i, end, type) ==
  IF i > Len(c) \/ Off(c, i) + 1 >= end THEN 0
  ELSE IF c[i].type = type THEN i
  ELSE tu_desc_find(c, tu_desc_next(i), end, type)

RECURSIVE tu_desc_find2(_, _, _)
\* First MIDI-Streaming interface descriptor at or after i before byte
\* offset end; 0 is "not found" (NULL).
tu_desc_find2(c, i, end) ==
  IF i > Len(c) \/ Off(c, i) + 2 >= end THEN 0
  ELSE IF c[i].type = "INTERFACE" /\ c[i].cls = "AUDIO"
          /\ c[i].sub = "MIDI_STREAMING" THEN i
  ELSE tu_desc_find2(c, tu_desc_next(i), end)

\* ------------------------------------------------------------- registry
\* The support test with the "#ifdef MIDI_SPEC_x_0" guards left out.
spec_version_supported_any_build(spec) ==
  spec \in {USB_MIDI_SPEC_VERSION_1, USB_MIDI_SPEC_VERSION_2}

tuh_midi_spec_version_supported(spec) ==
  \/ spec = USB_MIDI_SPEC_VERSION_1 /\ MIDI_SPEC_1_0
  \/ spec = USB_MIDI_SPEC_VERSION_2 /\ MIDI_SPEC_2_0

\* The records in use: dev_num 0 marks a free one.
Occupied(itf) == {h \in Slots : itf[h].dev_num # 0}

\* get_itf(index) is &_midih_itf[index - 1]: the handle itself; for index 0
\* it addresses the memory in front of the array.
get_itf(index) == index

FirstSlot(S) == IF S = {} THEN 0 ELSE CHOOSE h \in S : \A g \in S : h <= g

get_index(itf, dev_addr, itf_num) ==
  FirstSlot({h \in Slots : itf[h].dev_num = dev_addr /\ itf[h].itf_num = itf_num})

get_index_by_endpoint(itf, dev_addr, endpoint_addr) ==
  FirstSlot({h \in Slots : /\ itf[h].dev_num = dev_addr
                           /\ \/ itf[h].ep_in = endpoint_addr
                              \/ itf[h].ep_out = endpoint_addr})

\* Result: p, the record claimed (NULLP when none), and the registry after.
make_new_itf(itf, dev_addr, itf_num, spec_version) ==
  IF ~tuh_midi_spec_version_supported(spec_version)
  THEN [p |-> NULLP, itf |-> itf]
  ELSE LET h == FirstSlot({g \in Slots : itf[g].dev_num = 0})
       IN IF h = 0 THEN [p |-> NULLP, itf |-> itf]
          ELSE [p |-> h,
                itf |-> [itf EXCEPT ![h].dev_num = dev_addr,
                                    ![h].itf_num = itf_num]]

\* Result: id, the 1-based stream id (0 when the pool is exhausted), and the
\* owner table after.
alloc_stream_blk(owner, itf_index) ==
  LET i == FirstSlot({b \in Blocks : owner[b] = 0})
  IN IF i = 0 THEN [id |-> 0, owner |-> owner]
     ELSE [id |-> i, owner |-> [owner EXCEPT ![i] = itf_index]]

\* tu_edpt_stream_init on the block get_stream_blk(id) yields; id 0 is
\* &_stream_blk[-1], outside the pool.
tu_edpt_stream_init(blk, id, is_tx) ==
  IF id \in Blocks
  THEN [blk EXCEPT ![id] = [inited |-> TRUE, is_tx |-> is_tx, count |-> 0]]
  ELSE blk

\* ---------------------------------------------------------- application API
tuh_midi_mounted(index) == midih_itf[get_itf(index)].mounted

tuh_midi_spec_version(index) == midih_itf[get_itf(index)].midi_spec

\* The queries below take the registry they read as their first argument.
tuh_midi_get_in_endpoints(itf, index) ==
  IF itf[get_itf(index)].ep_in # 0 THEN 1 ELSE 0

tuh_midi_get_out_endpoints(itf, index) ==
  IF itf[get_itf(index)].ep_out # 0 THEN 1 ELSE 0

\* A failed TU_ASSERT returns 0.
tuh_midi_v1_get_in_endpoint_jacks(itf, index, ep_idx) ==
  IF itf[get_itf(index)].midi_spec # USB_MIDI_SPEC_VERSION_1 THEN 0
  ELSE itf[get_itf(index)].in_jack_count

tuh_midi_v1_get_out_endpoint_jacks(itf, index, ep_idx) ==
  IF itf[get_itf(index)].midi_spec # USB_MIDI_SPEC_VERSION_1 THEN 0
  ELSE itf[get_itf(index)].out_jack_count

\* ---------------------------------------------------------- enumeration
\* What a descriptor-sized piece of memory outside the buffer may hold.
WildDesc == {EpD(129), EpD(1), CsEpD}

RECURSIVE V1EndpointLoop(_, _, _, _, _, _, _)
\* The endpoint loop of config_process_spec_v1_interface on the record value
\* r: desc is never advanced, so every iteration reads the same descriptor
\* ep.  idx is get_index(itf->dev_num, itf->itf_num).  Result: the record,
\* owner table and stream blocks after, the value returned, and whether a
\* stream block outside the pool was initialised.
V1EndpointLoop(r, owner, blk, ep, i, n, idx) ==
  IF i >= n THEN
    [r |-> r, owner |-> owner, blk |-> blk, ret |-> TRUE, wild |-> FALSE]
  ELSE IF r.ep_in # 0 /\ r.ep_out # 0 THEN
    [r |-> r, owner |-> owner, blk |-> blk, ret |-> TRUE, wild |-> FALSE]
  ELSE IF ep.type # "ENDPOINT" THEN
    [r |-> r, owner |-> owner, blk |-> blk, ret |-> FALSE, wild |-> FALSE]
  ELSE IF tu_edpt_dir(ep.addr) = "IN" THEN
    IF r.ep_in # 0 THEN V1EndpointLoop(r, owner, blk, ep, i + 1, n, idx)
    ELSE LET a == alloc_stream_blk(owner, idx)
             rest == V1EndpointLoop(
                       [r EXCEPT !.ep_in = ep.addr, !.in_stream = a.id],
                       a.owner, tu_edpt_stream_init(blk, a.id, FALSE),
                       ep, i + 1, n, idx)
         IN [rest EXCEPT !.wild = @ \/ a.id = 0]
  ELSE
    IF r.ep_out # 0 THEN V1EndpointLoop(r, owner, blk, ep, i + 1, n, idx)
    ELSE LET a == alloc_stream_blk(owner, idx)
             rest == V1EndpointLoop(
                       [r EXCEPT !.ep_out = ep.addr, !.in_stream = a.id],
                       a.owner, tu_edpt_stream_init(blk, a.id, TRUE),
                       ep, i + 1, n, idx)
         IN [rest EXCEPT !.wild = @ \/ a.id = 0]

Faulted(itf, owner, blk) ==
  [ret |-> FALSE, fault |-> TRUE, itf |-> itf, owner |-> owner, blk |-> blk,
   wild |-> FALSE]

\* The outcomes of config_process_spec_v1_interface(q, &c[p], max_len) on
\* registry itf: q is the record make_new_itf returned (NULLP when the
\* registry was full), p the MIDI-Streaming interface descriptor in chain c.
config_process_spec_v1_interface(itf, owner, blk, q, c, p, max_len) ==
  LET desc == tu_desc_find(c, tu_desc_next(tu_desc_next(p)),
                           Off(c, p) + max_len, "ENDPOINT")
      n == c[p].neps
      recs == IF q \in Slots THEN {itf[q]}
              ELSE IF n > 0 THEN WildItf ELSE {ZeroItf}
      eps == IF desc # 0 THEN {c[desc]} ELSE WildDesc
      NullRead(r) ==
        \/ q = NULLP /\ n > 0
        \/ desc = 0 /\ n > 0 /\ ~(r.ep_in # 0 /\ r.ep_out # 0)
      Done(r, w) ==
        [ret |-> w.ret, fault |-> FALSE,
         itf |-> IF q \in Slots THEN [itf EXCEPT ![q] = w.r] ELSE itf,
         owner |-> w.owner, blk |-> w.blk,
         wild |-> w.wild \/ (q \notin Slots /\ w.r # r)]
  IN UNION {
       (IF NullRead(r) THEN {Faulted(itf, owner, blk)} ELSE {})
       \cup {Done(r, V1EndpointLoop(r, owner, blk, ep, 0, n,
                                    get_index(itf, r.dev_num, r.itf_num)))
               : ep \in eps}
       : r \in recs}

config_process_spec_v2_interface(itf, owner, blk) ==
  {[ret |-> TRUE, fault |-> FALSE, itf |-> itf, owner |-> owner,
    blk |-> blk, wild |-> FALSE]}

\* midih_open from its second class check on, desc_itf being c[p].
OpenAt(itf, owner, blk, dev_addr, c, p, max_len) ==
  LET Failed(bcd) ==
        {[ret |-> FALSE, fault |-> FALSE, itf |-> itf, owner |-> owner,
          blk |-> blk, wild |-> FALSE, slot |-> 0, bcd |-> bcd]}
      bcdMSC == c[tu_desc_next(p)].bcd
      midi_spec == IF bcdMSC = 256 THEN USB_MIDI_SPEC_VERSION_1
                   ELSE USB_MIDI_SPEC_VERSION_2
      mk == make_new_itf(itf, dev_addr, c[p].num, midi_spec)
      With(o) == [ret |-> o.ret, fault |-> o.fault, itf |-> o.itf,
                  owner |-> o.owner, blk |-> o.blk, wild |-> o.wild,
                  slot |-> IF mk.p = NULLP THEN 0 ELSE mk.p, bcd |-> bcdMSC]
  IN IF c[p].cls # "AUDIO" \/ c[p].sub # "MIDI_STREAMING" THEN Failed(-1)
     ELSE IF bcdMSC # 256 /\ bcdMSC # 512 THEN Failed(bcdMSC)
     ELSE IF ~tuh_midi_spec_version_supported(midi_spec) THEN Failed(bcdMSC)
     ELSE IF MIDI_SPEC_1_0 /\ midi_spec = USB_MIDI_SPEC_VERSION_1 THEN
       {With(o) : o \in config_process_spec_v1_interface(
                          mk.itf, owner, blk, mk.p, c, p, max_len)}
     ELSE IF MIDI_SPEC_2_0 /\ midi_spec = USB_MIDI_SPEC_VERSION_2 THEN
       {With(o) : o \in config_process_spec_v2_interface(mk.itf, owner, blk)}
     ELSE {With([ret |-> FALSE, fault |-> FALSE, itf |-> mk.itf,
                 owner |-> owner, blk |-> blk, wild |-> FALSE])}

\* The outcomes of midih_open(rhport, dev_addr, &c[1], max_len).  When the
\* scan for the nested MIDI-Streaming interface finds none, desc_itf is a
\* null pointer and what is read through it is any descriptor chain.
midih_open(itf, owner, blk, dev_addr, c, max_len) ==
  IF c[1].cls # "AUDIO" THEN
    {[ret |-> FALSE, fault |-> FALSE, itf |-> itf, owner |-> owner,
      blk |-> blk, wild |-> FALSE, slot |-> 0, bcd |-> -1]}
  ELSE IF c[1].sub = "CONTROL" THEN
    LET p == tu_desc_find2(c, 1, 9 * max_len)
    IN IF p # 0 THEN OpenAt(itf, owner, blk, dev_addr, c, p, max_len)
       ELSE {[ret |-> FALSE, fault |-> TRUE, itf |-> itf, owner |-> owner,
              blk |-> blk, wild |-> FALSE, slot |-> 0, bcd |-> -1]}
            \cup UNION {OpenAt(itf, owner, blk, dev_addr, g, 1, TotalLen(g))
                          : g \in WildChains}
  ELSE OpenAt(itf, owner, blk, dev_addr, c, 1, max_len)

\* ------------------------------------------------------------- close
RECURSIVE CloseLoopAnyDevice(_, _, _, _, _, _, _)
\* The loop with a lookup that matches the interface number alone.
CloseLoopAnyDevice(dev_addr, i, itf, fired, cbs, wild, below_mounted) ==
  IF i >= CFG_TUH_DEVICE_ITF_MAX THEN
    [itf |-> itf, fired |-> fired, cbs |-> cbs, wild |-> wild]
  ELSE
    LET h == get_itf(FirstSlot({g \in Slots : /\ itf[g].dev_num # 0
                                              /\ itf[g].itf_num = i}))
    IN IF h \in Slots
       THEN CloseLoopAnyDevice(dev_addr, i + 1, [itf EXCEPT ![h] = ZeroItf],
                               [fired EXCEPT ![h] = FALSE], cbs, wild,
                               below_mounted)
       ELSE CloseLoopAnyDevice(dev_addr, i + 1, itf, fired, cbs, TRUE,
                               below_mounted)

RECURSIVE CloseLoop(_, _, _, _, _, _, _)
\* The loop of midih_close from interface number i on.  get_index yields 0
\* for a number with no record, and get_itf(0) is never a null pointer: the
\* memory in front of the array is then read (below_mounted is what its
\* mounted byte holds until the loop clears it) and cleared.  An entry of
\* cbs is <<callback, argument passed, record the call was made for>>.
CloseLoop(dev_addr, i, itf, fired, cbs, wild, below_mounted) ==
  IF i >= CFG_TUH_DEVICE_ITF_MAX THEN
    [itf |-> itf, fired |-> fired, cbs |-> cbs, wild |-> wild]
  ELSE
    LET h == get_itf(get_index(itf, dev_addr, i))
        mounted == IF h \in Slots THEN itf[h].mounted
                   ELSE below_mounted /\ ~wild
        cbs2 == IF mounted THEN Append(cbs, <<"umount", dev_addr, h>>)
                ELSE cbs
    IN IF h \in Slots
       THEN CloseLoop(dev_addr, i + 1, [itf EXCEPT ![h] = ZeroItf],
                      [fired EXCEPT ![h] = FALSE], cbs2, wild, below_mounted)
       ELSE CloseLoop(dev_addr, i + 1, itf, fired, cbs2, TRUE, below_mounted)

\* ------------------------------------------------------------- actions
\* The driver's tables after midih_init (static storage, then tu_memclr).
Cleared ==
  /\ midih_itf = [h \in Slots |-> ZeroItf]
  /\ buffer_owner = [b \in Blocks |-> 0]
  /\ stream_blk = [b \in Blocks |-> ZeroStream]
  /\ mount_fired = [h \in Slots |-> FALSE]
  /\ opened = [h \in Slots |-> FALSE]
  /\ last = NoCall
  /\ fault = FALSE
  /\ usbh_ep = [k \in UsbhEps |-> ZeroEp]
  /\ sync_pc = 0

\* The default build of midi_host.h: both versions of the MIDI spec enabled.
Init ==
  /\ MIDI_SPEC_1_0 = TRUE
  /\ MIDI_SPEC_2_0 = TRUE
  /\ Cleared

\* Every build the header accepts: at least one version enabled.
InitBuilds ==
  /\ MIDI_SPEC_1_0 \in BOOLEAN
  /\ MIDI_SPEC_2_0 \in BOOLEAN
  /\ MIDI_SPEC_1_0 \/ MIDI_SPEC_2_0
  /\ Cleared

\* midih_open called for a device of devs with a chain of a kind of kinds.
OpenWith(devs, kinds) ==
  /\ ~fault
  /\ \E dev_addr \in devs, kind \in kinds, n \in ItfNums :
       LET c == Chain(kind, n)
       IN \E o \in midih_open(midih_itf, buffer_owner, stream_blk,
                              dev_addr, c, TotalLen(c)) :
            /\ midih_itf' = o.itf
            /\ buffer_owner' = o.owner
            /\ stream_blk' = o.blk
            /\ fault' = o.fault
            /\ opened' = IF o.slot \in Slots
                          THEN [opened EXCEPT ![o.slot] = o.ret /\ ~o.fault]
                          ELSE opened
            /\ last' = [NoCall EXCEPT !.op = "open", !.ret = o.ret,
                          !.wild = o.wild, !.slot = o.slot, !.bcd = o.bcd]
  /\ UNCHANGED <<MIDI_SPEC_1_0, MIDI_SPEC_2_0, mount_fired>>
  /\ UNCHANGED io_vars

Open == OpenWith(Devs, Kinds)

\* The outcomes of midih_set_config(dev_addr, itf_num).  mount_cb tells
\* whether the application defines the weak symbol tuh_midi_mount_cb; the
\* call is made either way.  Through the null address of an undefined weak
\* symbol it traps (fault) or runs whatever lies there and comes back (wild).
midih_set_config(itf, dev_addr, itf_num, mount_cb) ==
  LET index == get_index(itf, dev_addr, itf_num)
      Done == [ret |-> TRUE, fault |-> FALSE, wild |-> FALSE, index |-> index,
               cbs |-> <<<<"mount", index, get_itf(index)>>>>,
               complete |-> itf_num + 1]
  IN IF mount_cb THEN {Done}
     ELSE {[Done EXCEPT !.ret = FALSE, !.fault = TRUE, !.cbs = <<>>,
                        !.complete = 0],
           [Done EXCEPT !.wild = TRUE, !.cbs = <<>>]}

\* midih_set_config in a build whose application defines the callbacks.
SetConfig ==
  /\ ~fault
  /\ \E dev_addr \in Devs, itf_num \in ItfNums :
       \E o \in midih_set_config(midih_itf, dev_addr, itf_num, TRUE) :
          /\ mount_fired' = IF o.index \in Slots
                            THEN [mount_fired EXCEPT ![o.index] = TRUE]
                            ELSE mount_fired
          /\ last' = [NoCall EXCEPT !.op = "set_config",
                        !.ret = o.ret,
                        !.cbs = o.cbs,
                        !.complete = o.complete]
  /\ UNCHANGED <<MIDI_SPEC_1_0, MIDI_SPEC_2_0, midih_itf, buffer_owner,
                 stream_blk, opened, fault>>
  /\ UNCHANGED io_vars

Close ==
  /\ ~fault
  /\ \E dev_addr \in CloseDevs, below_mounted \in BOOLEAN :
       IF dev_addr > CFG_TUH_DEVICE_MAX
       THEN /\ last' = [NoCall EXCEPT !.op = "close", !.dev = dev_addr]
            /\ UNCHANGED <<midih_itf, mount_fired, opened>>
       ELSE LET o == CloseLoop(dev_addr, 0, midih_itf, mount_fired, <<>>,
                               FALSE, below_mounted)
            IN /\ midih_itf' = o.itf
               /\ mount_fired' = o.fired
               /\ opened' = [h \in Slots |->
                               opened[h] /\ midih_itf[h].dev_num # dev_addr]
               /\ last' = [NoCall EXCEPT !.op = "close", !.dev = dev_addr,
                             !.cbs = o.cbs, !.wild = o.wild]
  /\ UNCHANGED <<MIDI_SPEC_1_0, MIDI_SPEC_2_0, buffer_owner, stream_blk, fault>>
  /\ UNCHANGED io_vars

\* ---------------------------------------------------- transfer completion
\* tu_edpt_stream_read_xfer_complete(s, n): n received bytes enter the FIFO.
tu_edpt_stream_read_xfer_complete(blk, s, n) ==
  [blk EXCEPT ![s].count =
     IF blk[s].count + n > FifoCap THEN FifoCap ELSE blk[s].count + n]

\* The handler without its test of the transfer result.
midih_xfer_cb_any_result(itf, blk, dev_addr, ep_addr, event, xferred_bytes) ==
  LET index == get_index_by_endpoint(itf, dev_addr, ep_addr)
      p_midi == get_itf(index)
      Same == [fault |-> FALSE, blk |-> blk, wild |-> FALSE]
      Fault == [fault |-> TRUE, blk |-> blk, wild |-> FALSE]
      Wild == [fault |-> FALSE, blk |-> blk, wild |-> TRUE]
      Into(s) == [fault |-> FALSE, wild |-> FALSE,
                  blk |-> tu_edpt_stream_read_xfer_complete(blk, s, xferred_bytes)]
  IN IF tu_edpt_dir(ep_addr) # "IN" THEN {Same}
     ELSE IF p_midi \notin Slots THEN
       {Fault, Wild} \cup {Into(s) : s \in Blocks}
     ELSE
       LET stream == IF itf[p_midi].ep_in = ep_addr
                     THEN itf[p_midi].in_stream
                     ELSE itf[p_midi].out_stream
       IN IF stream = NULLP THEN {Fault, Wild}
          ELSE IF stream \in Blocks THEN {Into(stream)}
          ELSE {Wild}

\* The outcomes of midih_xfer_cb(dev_addr, ep_addr, event, xferred_bytes).
midih_xfer_cb(itf, blk, dev_addr, ep_addr, event, xferred_bytes) ==
  LET index == get_index_by_endpoint(itf, dev_addr, ep_addr)
      p_midi == get_itf(index)
      Same == [fault |-> FALSE, blk |-> blk, wild |-> FALSE]
      Fault == [fault |-> TRUE, blk |-> blk, wild |-> FALSE]
      Wild == [fault |-> FALSE, blk |-> blk, wild |-> TRUE]
      Into(s) == [fault |-> FALSE, wild |-> FALSE,
                  blk |-> tu_edpt_stream_read_xfer_complete(blk, s, xferred_bytes)]
  IN IF ~(event = "SUCCESS" /\ tu_edpt_dir(ep_addr) = "IN") THEN {Same}
     ELSE IF p_midi \notin Slots THEN
       \* get_ep_v1_by_addr reads the memory in front of the array and
       \* yields NULL or a pointer into it: endpoint->stream is any pointer.
       {Fault, Wild} \cup {Into(s) : s \in Blocks}
     ELSE
       LET stream == IF itf[p_midi].ep_in = ep_addr
                     THEN itf[p_midi].in_stream
                     ELSE itf[p_midi].out_stream
       IN IF stream = NULLP THEN {Fault, Wild}
          ELSE IF stream \in Blocks THEN {Into(stream)}
          ELSE {Wild}

\* What usbh reports for a completed transfer: result and byte count.
XferResults ==
  {<<"SUCCESS", 0>>, <<"SUCCESS", FifoCap>>, <<"FAILED", FifoCap>>}

XferCb ==
  /\ ~fault
  /\ \E dev_addr \in Devs, ep_addr \in EpAddrs, r \in XferResults :
       \E o \in midih_xfer_cb(midih_itf, stream_blk, dev_addr, ep_addr,
                              r[1], r[2]) :
         /\ stream_blk' = o.blk
         /\ fault' = o.fault
         /\ last' = [NoCall EXCEPT !.op = "xfer_cb", !.ret = TRUE,
                       !.wild = o.wild, !.event = r[1]]
  /\ UNCHANGED <<MIDI_SPEC_1_0, MIDI_SPEC_2_0, midih_itf, buffer_owner,
                 mount_fired, opened>>
  /\ UNCHANGED io_vars

Next == Open \/ SetConfig \/ Close \/ XferCb

Spec == Init /\ [][Next]_vars

\* Enumeration and removal of devices in every build.  midih_set_config and
\* midih_xfer_cb write neither the registry nor the owner table, the only
\* state the results of midih_open and midih_close depend on.
NextEnum == Open \/ Close

SpecBuilds == InitBuilds /\ [][NextEnum]_vars

\* ------------------------------------------------- cable-table variant
\* The second copy of the driver in midi_host.c (lines 663..1117) keeps, per
\* record, endpoint lists and a table of virtual cables instead of stream
\* buffers.  Its registry functions (get_itf, make_new_itf, get_index) and
\* its midih_set_config read the same as the first copy's; its records live
\* in midih_itf under SpecCables.
CFG_TUH_MIDI_CABLES == 3

ZeroCableItf ==
  [dev_num |-> 0, itf_num |-> 0, midi_spec |-> 0,
   ep_in |-> <<>>, ep_out |-> <<>>,
   configured |-> FALSE, mounted |-> FALSE,
   cable_in |-> <<>>, cable_out |-> <<>>]

\* What a record-sized piece of memory outside the registry may hold: zeroes,
\* or counts that leave no room in any table.
WildCableItf ==
  {ZeroCableItf,
   [ZeroCableItf EXCEPT
      !.dev_num = 1,
      !.ep_in = [k \in 1..CFG_TUH_ENDPOINT_MAX |-> 129],
      !.ep_out = [k \in 1..CFG_TUH_ENDPOINT_MAX |-> 1],
      !.cable_in = [k \in 1..CFG_TUH_MIDI_CABLES |->
                      [jack_id |-> 0, endpoint_id |-> 129]],
      !.cable_out = [k \in 1..CFG_TUH_MIDI_CABLES |->
                       [jack_id |-> 0, endpoint_id |-> 1]]]}

CableKinds ==
  {"MsV1One", "MsV1Jacks", "MsV1TwoIn", "MsV1Bare", "AcMsV1One", "MsV2",
   "AcOnly"}

CableChain(kind, n) ==
  CASE kind = "MsV1One" ->
         <<ItfD("AUDIO", "MIDI_STREAMING", n, 1), HdrD(256),
           EpD(1), CsEpJ(<<3>>)>>
    [] kind = "MsV1Jacks" ->
         <<ItfD("AUDIO", "MIDI_STREAMING", n, 1), HdrD(256),
           EpD(129), CsEpJ(<<1, 2, 3, 4>>)>>
    [] kind = "MsV1TwoIn" ->
         <<ItfD("AUDIO", "MIDI_STREAMING", n, 2), HdrD(256),
           EpD(129), CsEpJ(<<1>>), EpD(130), CsEpJ(<<2>>)>>
    [] kind = "MsV1Bare" ->
         <<ItfD("AUDIO", "MIDI_STREAMING", n, 2), HdrD(256),
           EpD(129), EpD(130)>>
    [] kind = "AcMsV1One" ->
         <<ItfD("AUDIO", "CONTROL", n, 0), CsAcD,
           ItfD("AUDIO", "MIDI_STREAMING", n + 1, 1), HdrD(256),
           EpD(129), CsEpJ(<<1>>)>>
    [] kind = "MsV1Dup" ->
         <<ItfD("AUDIO", "MIDI_STREAMING", n, 1), HdrD(256),
           EpD(129), CsEpJ(<<5, 5>>)>>
    [] OTHER -> Chain(kind, n)

\* A descriptor read as midi_desc_endpoint_t: byte 3 is bNumEmbMIDIJack and
\* the bytes after it baAssocJackID.  Of a bulk endpoint descriptor these are
\* bmAttributes (2) and wMaxPacketSize (64, 0); of an interface descriptor
\* and of the MIDI header byte 3 is 0.
AsCsEp(d) ==
  IF d.type = "CS_ENDPOINT" THEN [n |-> d.num, ids |-> d.ids]
  ELSE IF d.type = "ENDPOINT" THEN [n |-> 2, ids |-> <<64, 0>>]
  ELSE [n |-> 0, ids |-> <<>>]

\* What a descriptor outside the buffer may hold.
WildCableDesc == {EpD(130), CsEpJ(<<7>>)}

\* The descriptors that reading c[i] can yield: memory outside the buffer
\* (i = 0 is a null pointer, i > Len(c) is past its end) holds anything.
DescAt(c, i) == IF i \in DOMAIN c THEN {c[i]} ELSE WildCableDesc

\* Reading descriptor i touches a byte at an offset >= max_len.
ReadsPast(c, i, max_len) ==
  IF i \in DOMAIN c THEN Off(c, i) + c[i].len > max_len ELSE TRUE

\* What the host stack answers to tuh_edpt_open.
EdptOpenResults == BOOLEAN

RECURSIVE AddCables(_, _, _, _)
\* The inner loop over baAssocJackID from j on; tab is cable_in or cable_out.
AddCables(tab, cs, addr, j) ==
  IF j > cs.n THEN tab
  ELSE AddCables(IF Len(tab) < CFG_TUH_MIDI_CABLES
                 THEN Append(tab, [jack_id |-> cs.ids[j], endpoint_id |-> addr])
                 ELSE tab,
                 cs, addr, j + 1)

\* The capacity guard dropped: cables are entered for an endpoint that did
\* not fit the endpoint list.
AddEndpointUnguarded(r, addr, cs) ==
  IF tu_edpt_dir(addr) = "IN"
  THEN [r EXCEPT !.ep_in = IF Len(@) < CFG_TUH_ENDPOINT_MAX
                           THEN Append(@, addr) ELSE @,
                 !.cable_in = AddCables(@, cs, addr, 1)]
  ELSE [r EXCEPT !.ep_out = IF Len(@) < CFG_TUH_ENDPOINT_MAX
                            THEN Append(@, addr) ELSE @,
                 !.cable_out = AddCables(@, cs, addr, 1)]

\* Lines 1065..1089: enter the endpoint and its cables into record r.
AddEndpoint(r, addr, cs) ==
  IF tu_edpt_dir(addr) = "IN"
  THEN IF Len(r.ep_in) < CFG_TUH_ENDPOINT_MAX
       THEN [r EXCEPT !.ep_in = Append(@, addr),
                      !.cable_in = AddCables(@, cs, addr, 1)]
       ELSE r
  ELSE IF Len(r.ep_out) < CFG_TUH_ENDPOINT_MAX
       THEN [r EXCEPT !.ep_out = Append(@, addr),
                      !.cable_out = AddCables(@, cs, addr, 1)]
       ELSE r

\* Whether AddEndpoint reads the class-specific descriptor.
ReadsCs(r, addr) ==
  IF tu_edpt_dir(addr) = "IN" THEN Len(r.ep_in) < CFG_TUH_ENDPOINT_MAX
  ELSE Len(r.ep_out) < CFG_TUH_ENDPOINT_MAX

RECURSIVE CableEndpointLoop(_, _, _, _, _, _, _)
\* The endpoint loop of the cable-table config_process_spec_v1_interface
\* from iteration i on, desc being the descriptor index it stands on.  The
\* loop leaves desc on the descriptor after the endpoint.  Result: the
\* outcomes [r, ret, past, edpt_fail], r the record value after and
\* edpt_fail telling that tuh_edpt_open refused an endpoint.
CableEndpointLoop(r, c, desc, i, n, max_len, past) ==
  IF i >= n THEN {[r |-> r, ret |-> TRUE, past |-> past, edpt_fail |-> FALSE]}
  ELSE
    UNION {
      IF ep.type # "ENDPOINT"
      THEN {[r |-> r, ret |-> FALSE, edpt_fail |-> FALSE,
             past |-> past \/ ReadsPast(c, desc, max_len)]}
      ELSE UNION {
        IF ~opened_ok
        THEN {[r |-> r, ret |-> FALSE, edpt_fail |-> TRUE,
               past |-> past \/ ReadsPast(c, desc, max_len)]}
        ELSE UNION {
          CableEndpointLoop(
            AddEndpoint(r, ep.addr, AsCsEp(cs)), c, tu_desc_next(desc),
            i + 1, n, max_len,
            \/ past
            \/ ReadsPast(c, desc, max_len)
            \/ ReadsCs(r, ep.addr) /\ ReadsPast(c, tu_desc_next(desc), max_len))
          : cs \in DescAt(c, tu_desc_next(desc))}
        : opened_ok \in EdptOpenResults}
      : ep \in DescAt(c, desc)}

\* The outcomes of the cable-table config_process_spec_v1_interface(q,
\* &c[p], max_len) on registry itf; past tells whether a descriptor byte at
\* an offset >= max_len (counted from the descriptor midih_open was given)
\* was read.
config_process_spec_v1_interface_cables(itf, q, c, p, max_len) ==
  LET desc == tu_desc_find(c, tu_desc_next(tu_desc_next(p)),
                           Off(c, p) + max_len, "ENDPOINT")
      n == c[p].neps
      recs == IF q \in Slots THEN {itf[q]}
              ELSE IF n > 0 THEN WildCableItf ELSE {ZeroCableItf}
      NullRead == n > 0 /\ (q = NULLP \/ desc = 0)
      \* what is read through a null desc is not in the buffer, and neither
      \* is what follows it
      outside == IF desc = 0 THEN Len(c) + 1 ELSE desc
      Done(r, w) ==
        [ret |-> w.ret, fault |-> FALSE,
         itf |-> IF q \in Slots THEN [itf EXCEPT ![q] = w.r] ELSE itf,
         wild |-> q \notin Slots /\ w.r # r, past |-> w.past,
         edpt_fail |-> w.edpt_fail]
  IN (IF NullRead
      THEN {[ret |-> FALSE, fault |-> TRUE, itf |-> itf, wild |-> FALSE,
             past |-> FALSE, edpt_fail |-> FALSE]}
      ELSE {})
     \cup UNION {{Done(r, w) : w \in CableEndpointLoop(r, c, outside, 0, n,
                                                       max_len, FALSE)}
                 : r \in recs}

\* The cable-table midih_open from its second class check on.
OpenAtCables(itf, dev_addr, c, p, max_len) ==
  LET hdr_past == ReadsPast(c, p, max_len)
                  \/ ReadsPast(c, tu_desc_next(p), max_len)
      Failed(bcd, past) ==
        {[ret |-> FALSE, fault |-> FALSE, itf |-> itf, wild |-> FALSE,
          slot |-> 0, bcd |-> bcd, past |-> past, edpt_fail |-> FALSE]}
      bcdMSC == c[tu_desc_next(p)].bcd
      midi_spec == IF bcdMSC = 256 THEN USB_MIDI_SPEC_VERSION_1
                   ELSE USB_MIDI_SPEC_VERSION_2
      mk == make_new_itf(itf, dev_addr, c[p].num, midi_spec)
      With(o) == [ret |-> o.ret, fault |-> o.fault, itf |-> o.itf,
                  wild |-> o.wild,
                  slot |-> IF mk.p = NULLP THEN 0 ELSE mk.p, bcd |-> bcdMSC,
                  past |-> o.past \/ hdr_past, edpt_fail |-> o.edpt_fail]
  IN IF c[p].cls # "AUDIO" \/ c[p].sub # "MIDI_STREAMING"
     THEN Failed(-1, ReadsPast(c, p, max_len))
     ELSE IF bcdMSC # 256 /\ bcdMSC # 512 THEN Failed(bcdMSC, hdr_past)
     ELSE IF ~tuh_midi_spec_version_supported(midi_spec)
     THEN Failed(bcdMSC, hdr_past)
     ELSE IF MIDI_SPEC_1_0 /\ midi_spec = USB_MIDI_SPEC_VERSION_1 THEN
       {With(o) : o \in config_process_spec_v1_interface_cables(
                          mk.itf, mk.p, c, p, max_len)}
     ELSE
       {With([ret |-> MIDI_SPEC_2_0, fault |-> FALSE, itf |-> mk.itf,
              wild |-> FALSE, past |-> FALSE, edpt_fail |-> FALSE])}

\* The outcomes of the cable-table midih_open(rhport, dev_addr, &c[1],
\* max_len).  The scan for the nested MIDI-Streaming interface runs up to
\* 9 * max_len bytes; when it finds none in the buffer it has read past it,
\* and desc_itf is a null pointer or a match in the memory that follows.
midih_open_cables(itf, dev_addr, c, max_len) ==
  IF c[1].cls # "AUDIO" THEN
    {[ret |-> FALSE, fault |-> FALSE, itf |-> itf, wild |-> FALSE,
      slot |-> 0, bcd |-> -1, past |-> FALSE, edpt_fail |-> FALSE]}
  ELSE IF c[1].sub = "CONTROL" THEN
    LET p == tu_desc_find2(c, 1, 9 * max_len)
    IN IF p # 0 THEN OpenAtCables(itf, dev_addr, c, p, max_len)
       ELSE {[ret |-> FALSE, fault |-> TRUE, itf |-> itf, wild |-> FALSE,
              slot |-> 0, bcd |-> -1, past |-> TRUE, edpt_fail |-> FALSE]}
            \cup {[o EXCEPT !.past = TRUE] :
                    o \in UNION {OpenAtCables(itf, dev_addr, g, 1, TotalLen(g))
                                   : g \in WildChains}}
  ELSE OpenAtCables(itf, dev_addr, c, 1, max_len)

RECURSIVE CloseLoopCables(_, _, _, _, _, _, _)
\* The loop of the cable-table midih_close from interface number i on.
CloseLoopCables(dev_addr, i, itf, fired, cbs, wild, below_mounted) ==
  IF i >= CFG_TUH_DEVICE_ITF_MAX THEN
    [itf |-> itf, fired |-> fired, cbs |-> cbs, wild |-> wild]
  ELSE
    LET h == get_itf(get_index(itf, dev_addr, i))
        mounted == IF h \in Slots THEN itf[h].mounted
                   ELSE below_mounted /\ ~wild
        cbs2 == IF mounted THEN Append(cbs, <<"umount", dev_addr, h>>)
                ELSE cbs
    IN IF h \in Slots
       THEN CloseLoopCables(dev_addr, i + 1,
                            [itf EXCEPT ![h] = ZeroCableItf],
                            [fired EXCEPT ![h] = FALSE], cbs2, wild,
                            below_mounted)
       ELSE CloseLoopCables(dev_addr, i + 1, itf, fired, cbs2, TRUE,
                            below_mounted)

\* The lengths midih_open is given with chain c: the whole chain, or only
\* its first descriptor.
MaxLens(c) == {c[1].len, TotalLen(c)}

\* The cable-table driver's tables after midih_init, in the default build.
InitCables ==
  /\ MIDI_SPEC_1_0 = TRUE
  /\ MIDI_SPEC_2_0 = TRUE
  /\ midih_itf = [h \in Slots |-> ZeroCableItf]
  /\ buffer_owner = [b \in Blocks |-> 0]
  /\ stream_blk = [b \in Blocks |-> ZeroStream]
  /\ mount_fired = [h \in Slots |-> FALSE]
  /\ opened = [h \in Slots |-> FALSE]
  /\ last = NoCall
  /\ fault = FALSE
  /\ usbh_ep = [k \in UsbhEps |-> ZeroEp]
  /\ sync_pc = 0

OpenCablesWith(devs, kinds) ==
  /\ ~fault
  /\ \E dev_addr \in devs, kind \in kinds, n \in ItfNums :
       LET c == CableChain(kind, n)
       IN \E max_len \in MaxLens(c) :
            \E o \in midih_open_cables(midih_itf, dev_addr, c, max_len) :
              /\ midih_itf' = o.itf
              /\ fault' = o.fault
              /\ opened' = IF o.slot \in Slots
                            THEN [opened EXCEPT ![o.slot] = o.ret /\ ~o.fault]
                            ELSE opened
              /\ last' = [NoCall EXCEPT !.op = "open", !.ret = o.ret,
                            !.wild = o.wild, !.slot = o.slot, !.bcd = o.bcd]
  /\ UNCHANGED <<MIDI_SPEC_1_0, MIDI_SPEC_2_0, buffer_owner, stream_blk,
                 mount_fired>>
  /\ UNCHANGED io_vars

OpenCables == OpenCablesWith(Devs, CableKinds)

CloseCables ==
  /\ ~fault
  /\ \E dev_addr \in CloseDevs, below_mounted \in BOOLEAN :
       IF dev_addr > CFG_TUH_DEVICE_MAX
       THEN /\ last' = [NoCall EXCEPT !.op = "close", !.dev = dev_addr]
            /\ UNCHANGED <<midih_itf, mount_fired, opened>>
       ELSE LET o == CloseLoopCables(dev_addr, 0, midih_itf, mount_fired,
                                     <<>>, FALSE, below_mounted)
            IN /\ midih_itf' = o.itf
               /\ mount_fired' = o.fired
               /\ opened' = [h \in Slots |->
                               opened[h] /\ midih_itf[h].dev_num # dev_addr]
               /\ last' = [NoCall EXCEPT !.op = "close", !.dev = dev_addr,
                             !.cbs = o.cbs, !.wild = o.wild]
  /\ UNCHANGED <<MIDI_SPEC_1_0, MIDI_SPEC_2_0, buffer_owner, stream_blk, fault>>
  /\ UNCHANGED io_vars

\* The cable-table driver: its midih_set_config is the first copy's.
NextCables == OpenCables \/ SetConfig \/ CloseCables

SpecCables == InitCables /\ [][NextCables]_vars

\* ------------------------------------------------------- host stack
\* The host transport layer's endpoint calls, on its endpoint table eps.
\* An endpoint the table does not hold is never busy and cannot be claimed.
usbh_edpt_busy(eps, dev_addr, ep_addr) ==
  <<dev_addr, ep_addr>> \in DOMAIN eps /\ eps[<<dev_addr, ep_addr>>].busy

\* Result: ret, whether the claim was granted, and the table after.
usbh_edpt_claim(eps, dev_addr, ep_addr) ==
  LET k == <<dev_addr, ep_addr>>
  IN IF k \in DOMAIN eps /\ ~eps[k].busy /\ ~eps[k].claimed
     THEN [ret |-> TRUE, eps |-> [eps EXCEPT ![k].claimed = TRUE]]
     ELSE [ret |-> FALSE, eps |-> eps]

\* Result: ret, whether the transfer was started, and the table after.  A
\* transfer is refused while another is in flight on the endpoint.
usbh_edpt_xfer_with_callback(eps, dev_addr, ep_addr, buffer, total_bytes) ==
  LET k == <<dev_addr, ep_addr>>
  IN IF k \in DOMAIN eps /\ ~eps[k].busy
     THEN [ret |-> TRUE,
           eps |-> [eps EXCEPT ![k].busy = TRUE, ![k].buf = buffer,
                               ![k].len = total_bytes]]
     ELSE [ret |-> FALSE, eps |-> eps]

\* The table after the transfer in flight on the endpoint has completed:
\* the endpoint is released before the driver's callback runs.
usbh_xfer_complete(eps, dev_addr, ep_addr) ==
  [eps EXCEPT ![<<dev_addr, ep_addr>>] = ZeroEp]

\* ------------------------------------- application API, cable-table variant
\* The call that reports success whatever the transfer request returned.
packet_write_always_true(eps, dev_addr, itf, ep, event) ==
  LET c == usbh_edpt_claim(eps, dev_addr, ep)
  IN [usbh_edpt_xfer_with_callback(c.eps, dev_addr, ep, event, 4)
        EXCEPT !.ret = TRUE]

\* Result: the value returned and the host stack's endpoint table after.
tuh_midi_packet_write(eps, dev_addr, itf, ep, event) ==
  LET c == usbh_edpt_claim(eps, dev_addr, ep)
  IN usbh_edpt_xfer_with_callback(c.eps, dev_addr, ep, event, 4)

\* get_in_cable: the cable entry as <<record, position>>, NULLP when the
\* TU_VERIFY fails.  For a pair with no record, the count that is tested is
\* read in front of the array and the result is either.
get_in_cable(itf, dev_addr, itf_num, index) ==
  LET h == get_itf(get_index(itf, dev_addr, itf_num))
  IN IF h \notin Slots THEN {NULLP, <<h, index + 1>>}
     ELSE IF index < Len(itf[h].cable_in) THEN {<<h, index + 1>>}
     ELSE {NULLP}

get_out_cable(itf, dev_addr, itf_num, index) ==
  LET h == get_itf(get_index(itf, dev_addr, itf_num))
  IN IF h \notin Slots THEN {NULLP, <<h, index + 1>>}
     ELSE IF index < Len(itf[h].cable_out) THEN {<<h, index + 1>>}
     ELSE {NULLP}

\* What a byte read through a null or out-of-table cable pointer may be.
WildBytes == {0, 255}

\* The outcomes of reading field f through cable pointers ps into table
\* tab: val the byte returned, oob whether it was read outside the tables,
\* fault whether the null dereference trapped.
ReadCable(itf, ps, tab, f) ==
  UNION {
    IF ptr # NULLP /\ ptr[1] \in Slots
    THEN {[val |-> itf[ptr[1]][tab][ptr[2]][f], oob |-> FALSE, fault |-> FALSE]}
    ELSE {[val |-> 0, oob |-> FALSE, fault |-> TRUE]}
         \cup {[val |-> b, oob |-> TRUE, fault |-> FALSE] : b \in WildBytes}
    : ptr \in ps}

tuh_midi_get_in_cable_id(itf, dev_addr, itf_num, index) ==
  ReadCable(itf, get_in_cable(itf, dev_addr, itf_num, index),
            "cable_in", "jack_id")

tuh_midi_get_out_cable_id(itf, dev_addr, itf_num, index) ==
  ReadCable(itf, get_out_cable(itf, dev_addr, itf_num, index),
            "cable_out", "jack_id")

tuh_midi_get_in_cable_endpoint(itf, dev_addr, itf_num, index) ==
  ReadCable(itf, get_in_cable(itf, dev_addr, itf_num, index),
            "cable_in", "endpoint_id")

tuh_midi_get_out_cable_endpoint(itf, dev_addr, itf_num, index) ==
  ReadCable(itf, get_out_cable(itf, dev_addr, itf_num, index),
            "cable_out", "endpoint_id")

\* The values tuh_midi_in_ready can return: mounted is tested first, and the
\* cable entry is read with no test of cable_idx against the count.
tuh_midi_in_ready(itf, eps, dev_addr, itf_num, cable_idx) ==
  LET h == get_itf(get_index(itf, dev_addr, itf_num))
  IN IF h \notin Slots THEN BOOLEAN
     ELSE IF ~itf[h].mounted THEN {FALSE}
     ELSE IF cable_idx < Len(itf[h].cable_in)
     THEN {~usbh_edpt_busy(eps, dev_addr,
                           itf[h].cable_in[cable_idx + 1].endpoint_id)}
     ELSE BOOLEAN

tuh_midi_out_ready(itf, eps, dev_addr, itf_num, cable_idx) ==
  LET h == get_itf(get_index(itf, dev_addr, itf_num))
  IN IF h \notin Slots THEN BOOLEAN
     ELSE IF ~itf[h].mounted THEN {FALSE}
     ELSE IF cable_idx < Len(itf[h].cable_out)
     THEN {~usbh_edpt_busy(eps, dev_addr,
                           itf[h].cable_out[cable_idx + 1].endpoint_id)}
     ELSE BOOLEAN

\* The device the application talks to, the chains it enumerates with (one
\* OUT endpoint with one jack; one IN endpoint with more jacks than the
\* cable table holds) and the event buffers it writes from.
IoDevs == {1}
IoKinds == {"MsV1One", "MsV1Jacks"}
EventBufs == {1, 2}

OpenIo == OpenCablesWith(IoDevs, IoKinds)

PacketWrite ==
  /\ ~fault
  /\ \E dev_addr \in IoDevs, ep \in EpAddrs, event \in EventBufs :
       LET o == tuh_midi_packet_write(usbh_ep, dev_addr, 0, ep, event)
       IN /\ usbh_ep' = o.eps
          /\ last' = [NoCall EXCEPT !.op = "packet_write", !.dev = dev_addr,
                        !.ep = ep, !.ret = o.ret]
  /\ UNCHANGED <<MIDI_SPEC_1_0, MIDI_SPEC_2_0, midih_itf, buffer_owner,
                 stream_blk, mount_fired, opened, fault, sync_pc>>

\* The host stack completes the transfer in flight on an endpoint and calls
\* the cable-table midih_xfer_cb, which looks the record up and does nothing.
EdptComplete ==
  /\ ~fault
  /\ \E dev_addr \in IoDevs, ep \in EpAddrs :
       /\ usbh_edpt_busy(usbh_ep, dev_addr, ep)
       /\ usbh_ep' = usbh_xfer_complete(usbh_ep, dev_addr, ep)
       /\ last' = [NoCall EXCEPT !.op = "xfer_cb", !.dev = dev_addr,
                     !.ep = ep]
  /\ UNCHANGED <<MIDI_SPEC_1_0, MIDI_SPEC_2_0, midih_itf, buffer_owner,
                 stream_blk, mount_fired, opened, fault, sync_pc>>

\* The cable-table driver with an application doing packet I/O on device 1.
NextIo == OpenIo \/ SetConfig \/ CloseCables \/ PacketWrite \/ EdptComplete

SpecIo == InitCables /\ [][NextIo]_vars

\* ------------------------------------ application API, streaming variant
\* The stream buffer calls of the host stack, on the FIFO fill count.
\* tu_edpt_stream_write queues what fits.  Result: ret, the bytes queued,
\* and the stream blocks after.
tu_edpt_stream_write(blk, s, n) ==
  LET free == FifoCap - blk[s].count
      k == IF n < free THEN n ELSE free
  IN [ret |-> k, blk |-> [blk EXCEPT ![s].count = @ + k]]

\* tu_edpt_stream_read hands out what is queued, up to n bytes.
tu_edpt_stream_read(blk, s, n) ==
  LET k == IF n < blk[s].count THEN n ELSE blk[s].count
  IN [ret |-> k, blk |-> [blk EXCEPT ![s].count = @ - k]]

\* tu_edpt_stream_write_xfer starts a transfer of the queued bytes on the
\* stream's endpoint unless the FIFO is empty or the endpoint is taken.
\* Result: sent, the length of the transfer started, and the stream blocks
\* and endpoint table after.
tu_edpt_stream_write_xfer(blk, eps, s, dev_addr, ep_addr) ==
  LET c == usbh_edpt_claim(eps, dev_addr, ep_addr)
      x == usbh_edpt_xfer_with_callback(c.eps, dev_addr, ep_addr, 0,
                                        blk[s].count)
  IN IF blk[s].count = 0 \/ ~c.ret \/ ~x.ret
     THEN [sent |-> 0, blk |-> blk, eps |-> eps]
     ELSE [sent |-> blk[s].count, blk |-> [blk EXCEPT ![s].count = 0],
           eps |-> x.eps]

\* The outcomes of tuh_midi_v1_stream_n_write(index, ep_index, data, n):
\* get_out_ep_n_v1 yields &itf->io.v1.ep_out, whose stream pointer
\* midih_open never stores (out_stream stays null).
tuh_midi_v1_stream_n_write(itf, blk, index, ep_index, n) ==
  LET stream == itf[get_itf(index)].out_stream
  IN IF itf[get_itf(index)].midi_spec # USB_MIDI_SPEC_VERSION_1
     THEN {[ret |-> 0, blk |-> blk, fault |-> FALSE]}
     ELSE IF stream \notin Blocks
     THEN {[ret |-> 0, blk |-> blk, fault |-> TRUE]}
     ELSE {[ret |-> tu_edpt_stream_write(blk, stream, n).ret,
            blk |-> tu_edpt_stream_write(blk, stream, n).blk,
            fault |-> FALSE]}

\* The outcomes of tuh_midi_v1_stream_out_n_flush(index, ep_index).
tuh_midi_v1_stream_out_n_flush(itf, blk, eps, index, ep_index) ==
  LET r == itf[get_itf(index)]
      stream == r.out_stream
  IN IF r.midi_spec # USB_MIDI_SPEC_VERSION_1
     THEN {[sent |-> 0, blk |-> blk, eps |-> eps, fault |-> FALSE]}
     ELSE IF stream \notin Blocks
     THEN {[sent |-> 0, blk |-> blk, eps |-> eps, fault |-> TRUE]}
     ELSE LET x == tu_edpt_stream_write_xfer(blk, eps, stream, r.dev_num,
                                             r.ep_out)
          IN {[sent |-> x.sent, blk |-> x.blk, eps |-> x.eps,
               fault |-> FALSE]}

\* tu_edpt_stream_write_available tells how many more bytes the FIFO takes.
tu_edpt_stream_write_available(blk, s) == FifoCap - blk[s].count

\* The outcomes of tuh_midi_v1_stream_n_in_available(index, ep_index): the
\* version test, then tu_edpt_stream_write_available of the IN stream.  A
\* null stream pointer is dereferenced; stream id 0 reads the block below
\* the pool, which holds anything.
tuh_midi_v1_stream_n_in_available(itf, blk, index, ep_index) ==
  LET stream == itf[get_itf(index)].in_stream
  IN IF itf[get_itf(index)].midi_spec # USB_MIDI_SPEC_VERSION_1
     THEN {[ret |-> 0, fault |-> FALSE]}
     ELSE IF stream = NULLP
     THEN {[ret |-> 0, fault |-> TRUE]}
     ELSE IF stream \in Blocks
     THEN {[ret |-> tu_edpt_stream_write_available(blk, stream),
            fault |-> FALSE]}
     ELSE {[ret |-> k, fault |-> FALSE] : k \in 0..FifoCap}

\* The outcomes of tuh_midi_v1_stream_n_read(index, ep_index, data, n).
tuh_midi_v1_stream_n_read(itf, blk, index, ep_index, n) ==
  LET stream == itf[get_itf(index)].in_stream
  IN IF itf[get_itf(index)].midi_spec # USB_MIDI_SPEC_VERSION_1
     THEN {[ret |-> 0, blk |-> blk, fault |-> FALSE]}
     ELSE IF stream \notin Blocks
     THEN {[ret |-> 0, blk |-> blk, fault |-> TRUE]}
     ELSE {[ret |-> tu_edpt_stream_read(blk, stream, n).ret,
            blk |-> tu_edpt_stream_read(blk, stream, n).blk,
            fault |-> FALSE]}

tuh_midi_out_endpoint_ready(itf, eps, index, ep_index) ==
  /\ itf[get_itf(index)].mounted
  /\ ~usbh_edpt_busy(eps, itf[get_itf(index)].dev_num,
                     itf[get_itf(index)].ep_out)

tuh_midi_in_endpoint_ready(itf, eps, index, ep_index) ==
  /\ itf[get_itf(index)].mounted
  /\ ~usbh_edpt_busy(eps, itf[get_itf(index)].dev_num,
                     itf[get_itf(index)].ep_in)

\* The chains the streaming application's device enumerates with, and the
\* byte counts the application writes and reads.
StreamKinds == {"MsV1In", "MsV1Out"}
StreamLens == 1..FifoCap

OpenStream == OpenWith(IoDevs, StreamKinds)

StreamWrite ==
  /\ ~fault /\ sync_pc = 0
  /\ \E index \in Occupied(midih_itf), n \in StreamLens :
       \E o \in tuh_midi_v1_stream_n_write(midih_itf, stream_blk, index, 0, n) :
         /\ stream_blk' = o.blk
         /\ fault' = o.fault
         /\ last' = [NoCall EXCEPT !.op = "stream_write", !.slot = index,
                       !.complete = o.ret]
  /\ UNCHANGED <<MIDI_SPEC_1_0, MIDI_SPEC_2_0, midih_itf, buffer_owner,
                 mount_fired, opened, usbh_ep, sync_pc>>

StreamRead ==
  /\ ~fault /\ sync_pc = 0
  /\ \E index \in Occupied(midih_itf), n \in StreamLens :
       \E o \in tuh_midi_v1_stream_n_read(midih_itf, stream_blk, index, 0, n) :
         /\ stream_blk' = o.blk
         /\ fault' = o.fault
         /\ last' = [NoCall EXCEPT !.op = "stream_read", !.slot = index,
                       !.complete = o.ret]
  /\ UNCHANGED <<MIDI_SPEC_1_0, MIDI_SPEC_2_0, midih_itf, buffer_owner,
                 mount_fired, opened, usbh_ep, sync_pc>>

\* tuh_midi_v1_stream_out_n_flush_sync up to its loop: the flush.
FlushSyncCall ==
  /\ ~fault /\ sync_pc = 0
  /\ \E index \in Occupied(midih_itf) :
       \E o \in tuh_midi_v1_stream_out_n_flush(midih_itf, stream_blk,
                                               usbh_ep, index, 0) :
         /\ stream_blk' = o.blk
         /\ usbh_ep' = o.eps
         /\ fault' = o.fault
         /\ sync_pc' = index
         /\ last' = [NoCall EXCEPT !.op = "flush_sync", !.slot = index]
  /\ UNCHANGED <<MIDI_SPEC_1_0, MIDI_SPEC_2_0, midih_itf, buffer_owner,
                 mount_fired, opened>>

\* One evaluation of the loop condition of flush_sync: the call returns
\* when the ready query is true and polls again otherwise.
FlushSyncPoll ==
  /\ ~fault /\ sync_pc # 0
  /\ IF tuh_midi_out_endpoint_ready(midih_itf, usbh_ep, sync_pc, 0)
     THEN /\ sync_pc' = 0
          /\ last' = [NoCall EXCEPT !.op = "flush_sync_return",
                        !.slot = sync_pc]
     ELSE UNCHANGED <<sync_pc, last>>
  /\ UNCHANGED <<MIDI_SPEC_1_0, MIDI_SPEC_2_0, midih_itf, buffer_owner,
                 stream_blk, mount_fired, opened, fault, usbh_ep>>

\* The streaming driver with an application doing stream I/O on device 1;
\* transfer completions and device removal come from the host stack while
\* the application polls.
NextStream ==
  \/ OpenStream \/ SetConfig \/ Close \/ XferCb
  \/ StreamWrite \/ StreamRead \/ FlushSyncCall \/ FlushSyncPoll

SpecStream == Init /\ [][NextStream]_vars

\* ------------------------------------------------------------- claims
\* Interface numbers a record can hold: the nested MIDI-Streaming interface
\* follows the Audio-Control interface.
RecItfNums == 0..CFG_TUH_DEVICE_ITF_MAX

\* C1: for every (device, interface) pair whose record a successful
\* midih_open allocated, get_index keeps returning the same non-zero handle
\* over every further step that is not a midih_close of that device.
C1_HandleStableUntilClose ==
  [][\A d \in Devs, n \in RecItfNums :
       LET h == get_index(midih_itf, d, n)
       IN (h # 0 /\ opened[h] /\ ~(last'.op = "close" /\ last'.dev = d))
            => get_index(midih_itf', d, n) = h]_vars

\* C2: no two occupied slots hold the same (dev_num, itf_num) pair.
C2_UniquePairs ==
  \A g, h \in Slots :
    (g # h /\ midih_itf[g].dev_num # 0 /\ midih_itf[h].dev_num # 0)
      => <<midih_itf[g].dev_num, midih_itf[g].itf_num>>
           # <<midih_itf[h].dev_num, midih_itf[h].itf_num>>

\* C3: with every slot occupied, midih_open of a valid descriptor returns
\* false and changes nothing, inside or outside the driver's tables.
C3_FullOpenFails ==
  Occupied(midih_itf) = Slots =>
    \A dev_addr \in Devs, kind \in ValidKinds, n \in ItfNums :
      LET c == Chain(kind, n)
      IN \A o \in midih_open(midih_itf, buffer_owner, stream_blk,
                             dev_addr, c, TotalLen(c)) :
           /\ ~o.fault /\ o.ret = FALSE /\ ~o.wild
           /\ o.itf = midih_itf
           /\ o.owner = buffer_owner
           /\ o.blk = stream_blk

\* C4: after midih_close(d) no slot has dev_num = d.
C4_CloseFreesDevice ==
  [][last'.op = "close"
       => \A h \in Slots : midih_itf'[h].dev_num # last'.dev]_vars

\* C5: midih_close(d) for a device without a record invokes no callback and
\* modifies no memory, inside or outside the registry.
C5_CloseAbsentNoop ==
  [][(last'.op = "close" /\ \A h \in Slots : midih_itf[h].dev_num # last'.dev)
       => /\ last'.cbs = <<>> /\ ~last'.wild
          /\ midih_itf' = midih_itf
          /\ buffer_owner' = buffer_owner
          /\ stream_blk' = stream_blk]_vars

\* C6: tuh_midi_mounted(h) is true exactly from the mount callback for the
\* record to the close that clears it.
C6_MountedTracksCallbacks ==
  \A h \in Slots : tuh_midi_mounted(h) = mount_fired[h]

\* C7: per allocation of a slot the mount callback fires at most once, and
\* the unmount callback fires at most once and only for a record whose mount
\* callback has fired, before the slot is cleared.
C7_MountUmountPairing ==
  [][\A h \in Slots :
       /\ (last'.op = "set_config"
            /\ \E i \in DOMAIN last'.cbs : last'.cbs[i] = <<"mount", h, h>>)
            => ~mount_fired[h]
       /\ last'.op = "close"
            => LET U == {i \in DOMAIN last'.cbs :
                           last'.cbs[i][1] = "umount" /\ last'.cbs[i][3] = h}
               IN /\ Cardinality(U) <= 1
                  /\ U # {} => mount_fired[h] /\ midih_itf[h].dev_num # 0]_vars

\* C8: midih_close of a device invokes the unmount callback, with the
\* record's handle as argument, for every record of the device whose mount
\* callback has fired.
C8_CloseUnmountsMounted ==
  [][last'.op = "close"
       => \A h \in Slots :
            (midih_itf[h].dev_num = last'.dev /\ mount_fired[h])
              => \E i \in DOMAIN last'.cbs : last'.cbs[i] = <<"umount", h, h>>]_vars

\* C9: after a successful midih_open with bcdMSC 0x0100 (0x0200),
\* tuh_midi_spec_version of the allocated record is USB_MIDI_SPEC_VERSION_1
\* (USB_MIDI_SPEC_VERSION_2), and the value a record reports does not change
\* while the record stays allocated.
C9_SpecVersionRecorded ==
  [][/\ (last'.op = "open" /\ last'.ret /\ ~fault' /\ last'.slot \in Slots)
          => LET v == midih_itf'[get_itf(last'.slot)].midi_spec
             IN /\ last'.bcd = 256 => v = USB_MIDI_SPEC_VERSION_1
                /\ last'.bcd = 512 => v = USB_MIDI_SPEC_VERSION_2
     /\ \A h \in Slots :
          (midih_itf[h].dev_num # 0 /\ midih_itf'[h].dev_num # 0)
            => midih_itf'[get_itf(h)].midi_spec
                 = midih_itf[get_itf(h)].midi_spec]_vars

\* C10: midih_open of an interface whose header version is neither 0x0100
\* nor 0x0200, or is a version that is not compiled in, returns false,
\* claims no slot and leaves the registry (hence the number of occupied
\* slots) unchanged.
C10_UnsupportedVersionRejected ==
  [][(/\ last'.op = "open"
      /\ last'.bcd # -1
      /\ \/ last'.bcd \notin {256, 512}
         \/ last'.bcd = 256 /\ ~MIDI_SPEC_1_0
         \/ last'.bcd = 512 /\ ~MIDI_SPEC_2_0)
       => /\ last'.ret = FALSE /\ last'.slot = 0 /\ ~fault'
          /\ midih_itf' = midih_itf
          /\ Cardinality(Occupied(midih_itf')) = Cardinality(Occupied(midih_itf))]_vars

\* A midih_open of a version-3 header has just been refused while a record
\* is registered.
C10_Witness ==
  /\ last.op = "open" /\ last.bcd = 768 /\ last.ret = FALSE
  /\ Occupied(midih_itf) # {}

\* Well-formed version-1 descriptors, and what they declare per direction.
V1Kinds == {"MsV1In", "MsV1Out", "AcMsV1", "MsV1NoEp"}

DeclaredEps(c, dir) ==
  {i \in DOMAIN c : c[i].type = "ENDPOINT" /\ tu_edpt_dir(c[i].addr) = dir}

RECURSIVE SumJacks(_, _)
SumJacks(c, S) ==
  IF S = {} THEN 0
  ELSE LET i == CHOOSE j \in S : TRUE
       IN c[tu_desc_next(i)].num + SumJacks(c, S \ {i})

\* C11: midih_open of a well-formed version-1 descriptor that fits the
\* capacities succeeds, and afterwards the IN/OUT endpoint counts equal the
\* numbers of IN/OUT endpoint descriptors and the IN/OUT cable counts equal
\* the numbers of embedded jacks declared on the IN/OUT endpoints.
C11_CountsMatchDescriptor ==
  Occupied(midih_itf) # Slots =>
    \A dev_addr \in Devs, kind \in V1Kinds, n \in ItfNums :
      LET c == Chain(kind, n)
      IN \A o \in midih_open(midih_itf, buffer_owner, stream_blk,
                             dev_addr, c, TotalLen(c)) :
           /\ o.ret /\ ~o.fault /\ o.slot \in Slots
           /\ tuh_midi_get_in_endpoints(o.itf, o.slot)
                = Cardinality(DeclaredEps(c, "IN"))
           /\ tuh_midi_get_out_endpoints(o.itf, o.slot)
                = Cardinality(DeclaredEps(c, "OUT"))
           /\ tuh_midi_v1_get_in_endpoint_jacks(o.itf, o.slot, 0)
                = SumJacks(c, DeclaredEps(c, "IN"))
           /\ tuh_midi_v1_get_out_endpoint_jacks(o.itf, o.slot, 0)
                = SumJacks(c, DeclaredEps(c, "OUT"))

\* C12: in every record, each virtual-cable entry names an endpoint address
\* that is in the record's endpoint list of the same direction.
C12_CableEndpointListed ==
  \A h \in Slots :
    /\ \A k \in DOMAIN midih_itf[h].cable_in :
         \E e \in DOMAIN midih_itf[h].ep_in :
           midih_itf[h].ep_in[e] = midih_itf[h].cable_in[k].endpoint_id
    /\ \A k \in DOMAIN midih_itf[h].cable_out :
         \E e \in DOMAIN midih_itf[h].ep_out :
           midih_itf[h].ep_out[e] = midih_itf[h].cable_out[k].endpoint_id

\* A record holds cables, and the open that made it (of the chain with two
\* bare IN endpoints, whose first cable id is 64) turned the second endpoint
\* away because the endpoint list was full.
C12_Witness ==
  /\ last.op = "open" /\ last.slot \in Slots /\ last.ret
  /\ Len(midih_itf[last.slot].ep_in) = CFG_TUH_ENDPOINT_MAX
  /\ Len(midih_itf[last.slot].cable_in) >= 2
  /\ midih_itf[last.slot].cable_in[1].jack_id = 64

\* C13: when midih_open fails in the endpoint walk (a descriptor of an
\* unexpected type, or tuh_edpt_open failing), which is after make_new_itf
\* has handed out a record, no record remains for the interface: the set of
\* occupied records after the call is the set before it.
C13_FailedOpenLeavesNoRecord ==
  [][(last'.op = "open" /\ ~last'.ret /\ ~fault' /\ last'.slot \in Slots)
       => Occupied(midih_itf') = Occupied(midih_itf)]_vars

\* C14: midih_open never reads a descriptor byte at an offset >= max_len
\* from the descriptor it was given (in the scan for the nested interface,
\* the header read and the endpoint walk), and it fails when max_len covers
\* only the first descriptor, so that the header it expects is not within it.
C14_ReadsWithinMaxLen ==
  \A dev_addr \in Devs, kind \in CableKinds, n \in ItfNums :
    LET c == CableChain(kind, n)
    IN \A max_len \in MaxLens(c) :
         \A o \in midih_open_cables(midih_itf, dev_addr, c, max_len) :
           /\ ~o.past
           /\ max_len = c[1].len => ~o.ret

\* Chains that declare more than the tables hold: four jacks on one
\* endpoint, and two IN endpoints.
OverKinds == {"MsV1Jacks", "MsV1TwoIn"}

Prefix(s, k) == SubSeq(s, 1, IF Len(s) < k THEN Len(s) ELSE k)

RECURSIVE JacksFrom(_, _, _)
\* The cable entries the class-specific descriptor cs declares for endpoint
\* addr, from jack j on.
JacksFrom(cs, addr, j) ==
  IF j > cs.num THEN <<>>
  ELSE <<[jack_id |-> cs.ids[j], endpoint_id |-> addr]>>
       \o JacksFrom(cs, addr, j + 1)

RECURSIVE DeclaredFrom(_, _, _, _)
\* What chain c declares for direction dir from descriptor i on, with room
\* for k more endpoints: eps the endpoint addresses in descriptor order, cut
\* at the capacity, and cables the jacks of those endpoints in order.
DeclaredFrom(c, dir, i, k) ==
  IF i > Len(c) \/ k = 0 THEN [eps |-> <<>>, cables |-> <<>>]
  ELSE IF c[i].type = "ENDPOINT" /\ tu_edpt_dir(c[i].addr) = dir
  THEN LET rest == DeclaredFrom(c, dir, i + 2, k - 1)
       IN [eps |-> <<c[i].addr>> \o rest.eps,
           cables |-> JacksFrom(c[tu_desc_next(i)], c[i].addr, 1)
                      \o rest.cables]
  ELSE DeclaredFrom(c, dir, i + 1, k)

\* C15: when a descriptor declares more endpoints of a direction than the
\* endpoint list holds, or more embedded jacks than the cable table holds,
\* midih_open (tuh_edpt_open accepting every endpoint, a record being free)
\* still succeeds and stores the first entries up to the capacity in
\* descriptor order, dropping the rest.
C15_OverCapacityTruncates ==
  Occupied(midih_itf) # Slots =>
    \A dev_addr \in Devs, kind \in OverKinds, n \in ItfNums :
      LET c == CableChain(kind, n)
          in == DeclaredFrom(c, "IN", 1, CFG_TUH_ENDPOINT_MAX)
          out == DeclaredFrom(c, "OUT", 1, CFG_TUH_ENDPOINT_MAX)
      IN \A o \in midih_open_cables(midih_itf, dev_addr, c, TotalLen(c)) :
           ~o.edpt_fail =>
             /\ o.ret /\ ~o.fault /\ ~o.wild /\ o.slot \in Slots
             /\ o.itf[o.slot].ep_in = in.eps
             /\ o.itf[o.slot].ep_out = out.eps
             /\ o.itf[o.slot].cable_in = Prefix(in.cables, CFG_TUH_MIDI_CABLES)
             /\ o.itf[o.slot].cable_out = Prefix(out.cables, CFG_TUH_MIDI_CABLES)

\* C16: for every allocated record, direction and valid cable index, the
\* ready query returns true if and only if the record is Mounted (its mount
\* callback has fired) and the host stack reports no transfer in flight on
\* the endpoint bound to that index.
C16_ReadyIffMountedAndIdle ==
  \A h \in Occupied(midih_itf) :
    LET r == midih_itf[h]
    IN /\ \A i \in DOMAIN r.cable_in :
            tuh_midi_in_ready(midih_itf, usbh_ep, r.dev_num, r.itf_num, i - 1)
              = {mount_fired[get_index(midih_itf, r.dev_num, r.itf_num)]
                 /\ ~usbh_edpt_busy(usbh_ep, r.dev_num,
                                    r.cable_in[i].endpoint_id)}
       /\ \A i \in DOMAIN r.cable_out :
            tuh_midi_out_ready(midih_itf, usbh_ep, r.dev_num, r.itf_num, i - 1)
              = {mount_fired[get_index(midih_itf, r.dev_num, r.itf_num)]
                 /\ ~usbh_edpt_busy(usbh_ep, r.dev_num,
                                    r.cable_out[i].endpoint_id)}

\* C17: a cable query (cable id, cable endpoint) called for an allocated
\* record with an index >= the cable count returns without a null
\* dereference and without reading outside the record's tables.
C17_BadIndexFailsFast ==
  \A h \in Occupied(midih_itf) :
    LET r == midih_itf[h]
    IN /\ \A index \in Len(r.cable_in)..CFG_TUH_MIDI_CABLES :
            \A o \in tuh_midi_get_in_cable_id(midih_itf, r.dev_num,
                                              r.itf_num, index)
                     \cup tuh_midi_get_in_cable_endpoint(midih_itf, r.dev_num,
                                                         r.itf_num, index) :
              ~o.fault /\ ~o.oob
       /\ \A index \in Len(r.cable_out)..CFG_TUH_MIDI_CABLES :
            \A o \in tuh_midi_get_out_cable_id(midih_itf, r.dev_num,
                                               r.itf_num, index)
                     \cup tuh_midi_get_out_cable_endpoint(midih_itf, r.dev_num,
                                                          r.itf_num, index) :
              ~o.fault /\ ~o.oob

OutQueued(h) ==
  IF midih_itf[h].out_stream \in Blocks
  THEN stream_blk[midih_itf[h].out_stream].count ELSE 0

InQueued(h) ==
  IF midih_itf[h].in_stream \in Blocks
  THEN stream_blk[midih_itf[h].in_stream].count ELSE 0

\* C19: on a Mounted version-1 interface whose IN buffer is empty, a stream
\* write of n bytes accepts as many as fit the OUT buffer (fewer than n only
\* when it is full); those bytes flushed, echoed by the device and delivered
\* through midih_xfer_cb on the IN endpoint, a stream read of n bytes
\* returns as many bytes as the write accepted.
C19_StreamRoundTrip ==
  \A h \in Slots :
    (opened[h] /\ mount_fired[h] /\ InQueued(h) = 0) =>
      \A n \in StreamLens :
        \A w \in tuh_midi_v1_stream_n_write(midih_itf, stream_blk, h, 0, n) :
          /\ ~w.fault
          /\ w.ret = IF n < FifoCap - OutQueued(h) THEN n
                     ELSE FifoCap - OutQueued(h)
          /\ \A f \in tuh_midi_v1_stream_out_n_flush(midih_itf, w.blk,
                                                     usbh_ep, h, 0) :
               \A cb \in midih_xfer_cb(midih_itf, f.blk, midih_itf[h].dev_num,
                                       midih_itf[h].ep_in, "SUCCESS", f.sent) :
                 \A r \in tuh_midi_v1_stream_n_read(midih_itf, cb.blk, h, 0, n) :
                   ~f.fault /\ ~cb.fault /\ ~r.fault /\ r.ret = w.ret

\* C20: while a caller of tuh_midi_v1_stream_out_n_flush_sync polls for an
\* allocated record whose OUT endpoint the host stack reports to have no
\* transfer in flight, the loop's exit test (the ready query) is true, so
\* that the next evaluation ends the call.
C20_FlushSyncExits ==
  (sync_pc # 0 /\ sync_pc \in Occupied(midih_itf)
   /\ ~usbh_edpt_busy(usbh_ep, midih_itf[sync_pc].dev_num,
                      midih_itf[sync_pc].ep_out))
    => tuh_midi_out_endpoint_ready(midih_itf, usbh_ep, sync_pc, 0)

\* The endpoint addresses the records of device dev_addr hold in registry
\* itf.
BoundEps(itf, dev_addr) ==
  LET recs == {g \in Slots : itf[g].dev_num = dev_addr}
  IN ({itf[h].ep_in : h \in recs} \cup {itf[h].ep_out : h \in recs}) \ {0}

\* C21: a transfer completion for an endpoint of device d that is delivered
\* after midih_close(d) has cleared the device's records touches no driver
\* state: the handler does not fault, writes nothing outside the driver's
\* tables and leaves every stream buffer as it is.
C21_CompletionAfterClose ==
  [][(last'.op = "close" /\ last'.dev \in Devs) =>
       \A ep_addr \in BoundEps(midih_itf, last'.dev), r \in XferResults :
         \A o \in midih_xfer_cb(midih_itf', stream_blk', last'.dev, ep_addr,
                                r[1], r[2]) :
           ~o.fault /\ ~o.wild /\ o.blk = stream_blk']_vars

\* The stream bound to each endpoint a record holds: <<record, direction>>
\* to the record's stream pointer for that direction.
EpStream(itf) ==
  [k \in {<<h, "IN">> : h \in {g \in Slots : itf[g].ep_in # 0}}
         \cup {<<h, "OUT">> : h \in {g \in Slots : itf[g].ep_out # 0}} |->
     IF k[2] = "IN" THEN itf[k[1]].in_stream ELSE itf[k[1]].out_stream]

\* C22: in the streaming variant, every endpoint a record holds, IN or OUT,
\* has a stream buffer of the pool bound to it, and no stream buffer is
\* bound to two endpoints, of one record or of two.
C22_OneStreamPerEndpoint ==
  LET bound == EpStream(midih_itf)
  IN /\ \A k \in DOMAIN bound : bound[k] \in Blocks
     /\ \A k, m \in DOMAIN bound : bound[k] = bound[m] => k = m

\* Byte counts a completed transfer reports.
XferLens == {0, FifoCap}

\* C23: a successful completion for (device, endpoint) of a record advances
\* the cursors of the stream buffer bound to that endpoint, and of no other
\* buffer: an IN completion adds the reported bytes to the IN endpoint's
\* buffer (up to its capacity), and an OUT completion of at least one byte
\* moves the OUT endpoint's buffer and only that one.
C23_CompletionRouted ==
  \A h \in Occupied(midih_itf), n \in XferLens :
    LET r == midih_itf[h]
        first == get_index_by_endpoint(midih_itf, r.dev_num, r.ep_in) = h
        firstOut == get_index_by_endpoint(midih_itf, r.dev_num, r.ep_out) = h
    IN /\ (r.ep_in # 0 /\ first) =>
            \A o \in midih_xfer_cb(midih_itf, stream_blk, r.dev_num, r.ep_in,
                                   "SUCCESS", n) :
              /\ ~o.fault /\ ~o.wild
              /\ r.in_stream \in Blocks
              /\ o.blk = tu_edpt_stream_read_xfer_complete(stream_blk,
                                                           r.in_stream, n)
       /\ (r.ep_out # 0 /\ firstOut /\ n > 0) =>
            \A o \in midih_xfer_cb(midih_itf, stream_blk, r.dev_num, r.ep_out,
                                   "SUCCESS", n) :
              /\ ~o.fault /\ ~o.wild
              /\ r.out_stream \in Blocks
              /\ o.blk[r.out_stream] # stream_blk[r.out_stream]
              /\ \A b \in Blocks \ {r.out_stream} : o.blk[b] = stream_blk[b]

\* C24: midih_xfer_cb called with a result other than XFER_RESULT_SUCCESS
\* returns true, starts no transfer, and leaves the registry, the owner
\* table and every stream buffer unchanged.
C24_FailedCompletionSwallowed ==
  [][(last'.op = "xfer_cb" /\ last'.event # "SUCCESS") =>
       /\ last'.ret /\ ~fault' /\ ~last'.wild
       /\ UNCHANGED <<midih_itf, buffer_owner, stream_blk, usbh_ep>>]_vars

\* A failed completion has just been delivered for a device that has a
\* record with an IN endpoint and a stream buffer of the pool bound to it.
C24_Witness ==
  /\ last.op = "xfer_cb" /\ last.event = "FAILED"
  /\ \E h \in Occupied(midih_itf) :
       midih_itf[h].ep_in # 0 /\ midih_itf[h].in_stream \in Blocks

\* Record h of device dev_addr has endpoint_addr bound in the field of the
\* address's direction.
EndpointBound(itf, h, dev_addr, endpoint_addr) ==
  /\ itf[h].dev_num = dev_addr
  /\ endpoint_addr # 0
  /\ IF tu_edpt_dir(endpoint_addr) = "IN"
     THEN itf[h].ep_in = endpoint_addr
     ELSE itf[h].ep_out = endpoint_addr

\* C25: get_index_by_endpoint(d, e) returns the handle of a record of
\* device d that has e bound for e's direction when there is one, and 0
\* otherwise, in particular for the never-bound address 0x00.
C25_IndexByEndpointOnlyBound ==
  \A dev_addr \in Devs, endpoint_addr \in EpAddrs \cup {0} :
    LET index == get_index_by_endpoint(midih_itf, dev_addr, endpoint_addr)
    IN /\ index # 0 =>
            EndpointBound(midih_itf, index, dev_addr, endpoint_addr)
       /\ (\E h \in Slots :
             EndpointBound(midih_itf, h, dev_addr, endpoint_addr)) =>
            index # 0

\* The endpoint addresses the streaming variant's endpoint loop passes to
\* tuh_edpt_open while it walks the descriptors of device dev_addr: the
\* loop compiled for one endpoint per direction makes no such call, for any
\* chain c.
v1_edpt_open_calls(dev_addr, c) == {}

\* C26: every endpoint address in a record's IN or OUT field was passed to
\* a successful tuh_edpt_open for the record's device during the open.
C26_RecordedEndpointsOpened ==
  \A h \in Occupied(midih_itf) :
    ({midih_itf[h].ep_in, midih_itf[h].ep_out} \ {0}) \subseteq
      UNION {v1_edpt_open_calls(midih_itf[h].dev_num, Chain(kind, 0)) :
               kind \in Kinds}

\* The jack IDs of a cable table are pairwise distinct.
DistinctJacks(tab) ==
  \A i, j \in 1..Len(tab) : tab[i].jack_id = tab[j].jack_id => i = j

\* A chain whose IN endpoint lists the same embedded jack twice.
DupKinds == {"MsV1Dup"}

\* C27: in every record of the cable-table variant the jack IDs stored in
\* the IN cable table are pairwise distinct, and so are those of the OUT
\* cable table, whatever the descriptors declare: also after midih_open
\* of a chain that names one jack twice.
C27_JackIdsDistinct ==
  /\ \A h \in Occupied(midih_itf) :
       /\ DistinctJacks(midih_itf[h].cable_in)
       /\ DistinctJacks(midih_itf[h].cable_out)
  /\ \A dev_addr \in Devs, kind \in DupKinds, n \in ItfNums :
       LET c == CableChain(kind, n)
       IN \A o \in midih_open_cables(midih_itf, dev_addr, c, TotalLen(c)) :
            \A h \in Occupied(o.itf) :
              /\ DistinctJacks(o.itf[h].cable_in)
              /\ DistinctJacks(o.itf[h].cable_out)

\* C28: in a build whose application defines no mount callback,
\* midih_set_config behaves as with a callback that does nothing: it makes
\* no call through the undefined symbol, reports completion for
\* itf_num + 1 and returns true.
C28_UndefinedCallbackSkipped ==
  \A dev_addr \in Devs, itf_num \in ItfNums :
    \A o \in midih_set_config(midih_itf, dev_addr, itf_num, FALSE) :
      /\ ~o.fault /\ ~o.wild
      /\ o.ret /\ o.cbs = <<>> /\ o.complete = itf_num + 1

\* C29: tuh_midi_v1_stream_n_in_available returns the number of received
\* bytes waiting in the IN stream buffer of the interface, 0 when nothing
\* has arrived.
C29_InAvailableCountsReceived ==
  \A h \in Slots :
    (opened[h] /\ midih_itf[h].ep_in # 0
       /\ midih_itf[h].in_stream \in Blocks) =>
      \A o \in tuh_midi_v1_stream_n_in_available(midih_itf, stream_blk, h, 0) :
        ~o.fault /\ o.ret = InQueued(h)

\* C30: stream buffers go back to the pool when their record is released.
\* While the records hold fewer endpoints than the pool has buffers, the
\* next allocation obtains a buffer of the pool, and that buffer is bound
\* to no endpoint of a record; and no record ever has a stream pointer to a
\* block outside the pool.
C30_BuffersReturnedToPool ==
  /\ Cardinality(DOMAIN EpStream(midih_itf)) < Cardinality(Blocks) =>
       LET id == alloc_stream_blk(buffer_owner, 1).id
       IN /\ id \in Blocks
          /\ \A k \in DOMAIN EpStream(midih_itf) : EpStream(midih_itf)[k] # id
  /\ \A h \in Slots :
       /\ midih_itf[h].in_stream \in Blocks \cup {NULLP}
       /\ midih_itf[h].out_stream \in Blocks \cup {NULLP}

\* The handles midih_close(dev_addr) passes to get_itf: get_index of every
\* interface number of the loop, found or not.
close_get_itf_handles(itf, dev_addr) ==
  {get_index(itf, dev_addr, i) : i \in 0..(CFG_TUH_DEVICE_ITF_MAX - 1)}

\* C31: get_itf is applied only to handles in 1..CFG_TUH_MIDI.  midih_close
\* of any device address the host stack may detach, midih_xfer_cb for an
\* endpoint bound by an open, and midih_set_config for the interface of a
\* record never take the not-found handle 0 to a record reference, and
\* midih_close writes nothing outside the registry.
C31_GetItfOnlyOnHandles ==
  /\ \A dev_addr \in Devs :
       /\ close_get_itf_handles(midih_itf, dev_addr) \subseteq Slots
       /\ \A below_mounted \in BOOLEAN :
            ~CloseLoop(dev_addr, 0, midih_itf, mount_fired, <<>>, FALSE,
                       below_mounted).wild
  /\ \A dev_addr \in Devs :
       \A ep_addr \in BoundEps(midih_itf, dev_addr) :
         get_itf(get_index_by_endpoint(midih_itf, dev_addr, ep_addr)) \in Slots
  /\ \A h \in Occupied(midih_itf) :
       \A o \in midih_set_config(midih_itf, midih_itf[h].dev_num,
                                 midih_itf[h].itf_num, TRUE) :
         get_itf(o.index) \in Slots

C33_SetConfigFindsOpenedRecord ==
  \A dev_addr \in Devs, kind \in ValidKinds, n \in ItfNums :
    LET c == Chain(kind, n)
    IN \A o \in midih_open(midih_itf, buffer_owner, stream_blk, dev_addr, c,
                           TotalLen(c)) :
         (o.ret /\ ~o.fault /\ o.slot \in Slots) =>
           \A sc \in midih_set_config(o.itf, dev_addr, c[1].num, TRUE) :
             /\ sc.ret /\ ~sc.fault
             /\ sc.cbs = <<<<"mount", o.slot, get_itf(o.slot)>>>>
             /\ sc.complete = c[1].num + 1

====
